---- MODULE Spec2Model ----
(***************************************************************************)
(* Model of core/models.py: the Event, EventAdmin and Ticket models of the *)
(* ticketing application.                                                  *)
(*                                                                         *)
(* Two layers are modelled.                                                *)
(*  - The stored rows (users, events, admins, tickets): what the field     *)
(*    declarations of models.py say about them (foreign keys with          *)
(*    on_delete=CASCADE, unique_together, defaults, choices).              *)
(*  - The Python instances: what Event.__init__ / Ticket.__init__ leave in *)
(*    an instance and what Event.tickets_sold / Event.seats_available      *)
(*    compute from it.                                                     *)
(* Every action writes `result`, the outcome of the operation just run     *)
(* (return value or exception), so that a property can speak about "the    *)
(* call that has just completed" in the state it completed in.             *)
(***************************************************************************)
EXTENDS Integers, Sequences, FiniteSets, TLC

\* ------------------------------------------------------------------ bounds
MaxUsers    == 2
MaxEventId  == 2
MaxAdminId  == 2
MaxTicketId == 2
MaxQuantity == 1
MaxCapacity == 1

UserIds    == 1..MaxUsers
Quantities == 1..MaxQuantity

\* ------------------------------------------------------- values of the code
\* Python's None, for integer-valued attributes and return values.
None == -1
\* A Python object that is not a field value (the `args` tuple or the
\* `kwargs` dict once they have been passed on as positional values).
Obj == -2

Capacities == {None} \cup (1..MaxCapacity)

STATUS_PENDING   == "PENDING"
STATUS_PAID      == "PAID"
STATUS_CANCELLED == "CANCELLED"
STATUS_CHOICES   == {STATUS_PENDING, STATUS_PAID, STATUS_CANCELLED}

\* Ticket.status: default=STATUS_PENDING
StatusDefault == STATUS_PENDING

\* Outcome of a call: a returned value or a raised exception.
Ret(v)   == [kind |-> "return", val |-> v,    exc |-> ""]
Raise(x) == [kind |-> "raise",  val |-> None, exc |-> x]

\* The record kept in `result`: operation, outcome and its arguments.
Res(op, r, a1, a2, s1, s2) ==
    [op |-> op, kind |-> r.kind, val |-> r.val, exc |-> r.exc,
     a1 |-> a1, a2 |-> a2, s1 |-> s1, s2 |-> s2]

NoResult == Res("", Ret(None), 0, 0, "", "")

VARIABLES
    users,        \* ids of the stored users (settings.AUTH_USER_MODEL)
    events,       \* stored Event rows      [id, capacity]
    admins,       \* stored EventAdmin rows [id, user, event]
    tickets,      \* stored Ticket rows     [id, event, buyer, quantity, status]
    nextEventId,  \* next id the storage layer hands to an Event
    nextAdminId,  \* next id the storage layer hands to an EventAdmin
    nextTicketId, \* next id the storage layer hands to a Ticket
    inst,         \* the model instance held by the caller (or NoInstance)
    result        \* outcome of the operation that has just run

vars == <<users, events, admins, tickets, nextEventId, nextAdminId,
          nextTicketId, inst, result>>

store == <<users, events, admins, tickets, nextEventId, nextAdminId,
           nextTicketId>>

\* --------------------------------------------------------------- helpers
RECURSIVE SumQuantity(_)
\* Sum('quantity') over a set of Ticket rows (the rows being non-empty).
SumQuantity(S) ==
    IF S = {} THEN 0
    ELSE LET t == CHOOSE x \in S : TRUE
         IN  t.quantity + SumQuantity(S \ {t})

EventIds  == {e.id : e \in events}
TicketIds == {t.id : t \in tickets}
EventRow(e)  == CHOOSE r \in events : r.id = e
TicketRow(t) == CHOOSE r \in tickets : r.id = t

\* --------------------------------------------------------- the instances
NoInstance == [model |-> "", row |-> 0, id |-> None, title |-> None,
               capacity |-> None, tickets |-> "", quantity |-> None]

\* Concrete fields in declaration order, as far as the model follows them.
EventFields  == <<"id", "title", "capacity">>
TicketFields == <<"id", "event_id", "quantity">>

\* Field defaults: capacity is null=True without default, quantity default=1.
FieldDefault(f) == IF f = "quantity" THEN 1 ELSE None

\* models.Model.__init__(self, *posargs, **kw): positional values are bound
\* to the fields in declaration order, keyword values by name, every other
\* field takes its default.
Model__init__(fields, posargs, kw) ==
    [f \in {fields[i] : i \in 1..Len(fields)} |->
        LET i == CHOOSE j \in 1..Len(fields) : fields[j] = f
        IN  IF i <= Len(posargs) THEN posargs[i]
            ELSE IF f \in DOMAIN kw THEN kw[f]
            ELSE FieldDefault(f)]

\* A tuple or dict handed over as ONE positional value: the field it is
\* bound to holds the object itself, none of the values inside it.
AsValue(x) == Obj

\* Event.__init__(self, *args, **kwargs):
\*     super().__init__(args, kwargs)   -- two positional values: the tuple
\*                                         and the dict themselves
\*     self.tickets = None
\*     self.id = None
\* `row` is not a Python attribute: it remembers which stored row the
\* instance stands for (0 for an instance that was not loaded).
Event__init__(args, kwargs, row) ==
    LET base == Model__init__(EventFields, <<AsValue(args), AsValue(kwargs)>>, <<>>)
    IN  [model |-> "Event", row |-> row,
         id |-> None, title |-> base["title"],
         capacity |-> base["capacity"],
         tickets |-> "None", quantity |-> None]

\* Ticket.__init__(self, *args, **kwargs):
\*     super().__init__(args, kwargs)
\*     self.id = None
Ticket__init__(args, kwargs, row) ==
    LET base == Model__init__(TicketFields, <<AsValue(args), AsValue(kwargs)>>, <<>>)
    IN  [model |-> "Ticket", row |-> row,
         id |-> None, title |-> None, capacity |-> None,
         tickets |-> "", quantity |-> base["quantity"]]

\* self.tickets.aggregate(total=Sum('quantity')).get('total'):
\* the related manager selects the tickets whose event is this instance;
\* Sum over no rows is None.
Aggregate(self) ==
    LET rows == {t \in tickets : t.event = self.id}
    IN  IF rows = {} THEN None ELSE SumQuantity(rows)

\* x or 0
OrZero(x) == IF x = None \/ x = 0 THEN 0 ELSE x

\* Event.tickets_sold
tickets_sold(self) ==
    IF self.tickets = "None"
    THEN Raise("AttributeError")              \* None has no .aggregate
    ELSE Ret(OrZero(Aggregate(self)))

\* seats_available without the `capacity is None` early return.
seats_available_NoNoneCheck(self) ==
    IF self.tickets = "None"
    THEN Raise("AttributeError")
    ELSE LET sold      == OrZero(Aggregate(self))
             available == self.capacity - sold
         IN  Ret(IF available > 0 THEN available ELSE 0)

\* Event.seats_available
seats_available(self) ==
    IF self.capacity = None
    THEN Ret(None)
    ELSE IF self.tickets = "None"
    THEN Raise("AttributeError")
    ELSE LET sold      == OrZero(Aggregate(self))
             available == self.capacity - sold
         IN  Ret(IF available > 0 THEN available ELSE 0)

\* ------------------------------------------------------------------ Init
Init ==
    /\ users = {}
    /\ events = {}
    /\ admins = {}
    /\ tickets = {}
    /\ nextEventId = 1
    /\ nextAdminId = 1
    /\ nextTicketId = 1
    /\ inst = NoInstance
    /\ result = NoResult

\* ------------------------------------------------- storage-layer actions
CreateUser(u) ==
    /\ u \notin users
    /\ users' = users \cup {u}
    /\ result' = Res("create_user", Ret(None), 0, 0, "", "")
    /\ UNCHANGED <<events, admins, tickets, nextEventId, nextAdminId,
                   nextTicketId, inst>>

\* DeleteUser with Ticket.buyer not cascading.
DeleteUser_KeepTickets(u) ==
    /\ u \in users
    /\ users' = users \ {u}
    /\ admins' = {a \in admins : a.user # u}
    /\ result' = Res("delete_user",
                     Ret(1 + Cardinality(admins \ admins')), 0, 0, "", "")
    /\ UNCHANGED <<events, tickets, nextEventId, nextAdminId, nextTicketId,
                   inst>>

\* on_delete=CASCADE on EventAdmin.user and Ticket.buyer
DeleteUser(u) ==
    /\ u \in users
    /\ users' = users \ {u}
    /\ admins' = {a \in admins : a.user # u}
    /\ tickets' = {t \in tickets : t.buyer # u}
    /\ result' = Res("delete_user",
                     Ret(1 + Cardinality(admins \ admins')
                           + Cardinality(tickets \ tickets')),
                     0, 0, "", "")
    /\ UNCHANGED <<events, nextEventId, nextAdminId, nextTicketId,
                   inst>>

\* A new Event row; the storage layer assigns the id.
CreateEvent(c) ==
    /\ nextEventId <= MaxEventId
    /\ events' = events \cup {[id |-> nextEventId, capacity |-> c]}
    /\ nextEventId' = nextEventId + 1
    /\ result' = Res("create_event", Ret(nextEventId), 0, 0, "", "")
    /\ UNCHANGED <<users, admins, tickets, nextAdminId, nextTicketId,
                   inst>>

\* DeleteEvent with EventAdmin.event not cascading.
DeleteEvent_KeepAdmins(e) ==
    /\ e \in EventIds
    /\ events' = {r \in events : r.id # e}
    /\ tickets' = {t \in tickets : t.event # e}
    /\ result' = Res("delete_event",
                     Ret(1 + Cardinality(tickets \ tickets')), 0, 0, "", "")
    /\ UNCHANGED <<users, admins, nextEventId, nextAdminId, nextTicketId,
                   inst>>

\* on_delete=CASCADE on EventAdmin.event and Ticket.event
DeleteEvent(e) ==
    /\ e \in EventIds
    /\ events' = {r \in events : r.id # e}
    /\ admins' = {a \in admins : a.event # e}
    /\ tickets' = {t \in tickets : t.event # e}
    /\ result' = Res("delete_event",
                     Ret(1 + Cardinality(admins \ admins')
                           + Cardinality(tickets \ tickets')),
                     0, 0, "", "")
    /\ UNCHANGED <<users, nextEventId, nextAdminId, nextTicketId,
                   inst>>

\* CreateEventAdmin without unique_together.
CreateEventAdmin_NoUnique(u, e) ==
    /\ IF u \notin users \/ e \notin EventIds
       THEN /\ result' = Res("create_admin", Raise("IntegrityError"),
                             u, e, "", "")
            /\ UNCHANGED <<admins, nextAdminId>>
       ELSE /\ nextAdminId <= MaxAdminId
            /\ admins' = admins \cup
                   {[id |-> nextAdminId, user |-> u, event |-> e]}
            /\ nextAdminId' = nextAdminId + 1
            /\ result' = Res("create_admin", Ret(nextAdminId), u, e, "", "")
    /\ UNCHANGED <<users, events, tickets, nextEventId, nextTicketId,
                   inst>>

\* A new EventAdmin row: both foreign keys must reference stored rows and
\* unique_together = ('user', 'event').
CreateEventAdmin(u, e) ==
    /\ IF u \notin users \/ e \notin EventIds
          \/ \E a \in admins : a.user = u /\ a.event = e
       THEN /\ result' = Res("create_admin", Raise("IntegrityError"),
                             u, e, "", "")
            /\ UNCHANGED <<admins, nextAdminId>>
       ELSE /\ nextAdminId <= MaxAdminId
            /\ admins' = admins \cup
                   {[id |-> nextAdminId, user |-> u, event |-> e]}
            /\ nextAdminId' = nextAdminId + 1
            /\ result' = Res("create_admin", Ret(nextAdminId), u, e, "", "")
    /\ UNCHANGED <<users, events, tickets, nextEventId, nextTicketId,
                   inst>>

DeleteEventAdmin(a) ==
    /\ a \in admins
    /\ admins' = admins \ {a}
    /\ result' = Res("delete_admin", Ret(1), 0, 0, "", "")
    /\ UNCHANGED <<users, events, tickets, nextEventId, nextAdminId,
                   nextTicketId, inst>>

\* A new Ticket row: both foreign keys must reference stored rows; status
\* takes its default. Nothing here reads the event's capacity.
CreateTicket(e, u, q) ==
    /\ IF u \notin users \/ e \notin EventIds
       THEN /\ result' = Res("create_ticket", Raise("IntegrityError"),
                             e, u, "", "")
            /\ UNCHANGED <<tickets, nextTicketId>>
       ELSE /\ nextTicketId <= MaxTicketId
            /\ tickets' = tickets \cup
                   {[id |-> nextTicketId, event |-> e, buyer |-> u,
                     quantity |-> q, status |-> StatusDefault]}
            /\ nextTicketId' = nextTicketId + 1
            /\ result' = Res("create_ticket", Ret(nextTicketId), e, u, "", "")
    /\ UNCHANGED <<users, events, admins, nextEventId, nextAdminId,
                   inst>>

DeleteTicket(t) ==
    /\ t \in tickets
    /\ tickets' = tickets \ {t}
    /\ result' = Res("delete_ticket", Ret(1), 0, 0, "", "")
    /\ UNCHANGED <<users, events, admins, nextEventId, nextAdminId,
                   nextTicketId, inst>>

\* SetStatus with a transition graph (PENDING -> PAID | CANCELLED,
\* PAID -> CANCELLED): any other write is refused.
SetStatus_Graph(t, s) ==
    /\ t \in tickets
    /\ IF \/ t.status = STATUS_PENDING /\ s # STATUS_PENDING
          \/ t.status = STATUS_PAID /\ s = STATUS_CANCELLED
       THEN /\ tickets' = (tickets \ {t}) \cup {[t EXCEPT !.status = s]}
            /\ result' = Res("set_status", Ret(None), t.id, 0, t.status, s)
       ELSE /\ tickets' = tickets
            /\ result' = Res("set_status", Raise("ValidationError"),
                             t.id, 0, t.status, s)
    /\ UNCHANGED <<users, events, admins, nextEventId, nextAdminId,
                   nextTicketId, inst>>

\* A write of Ticket.status: any of STATUS_CHOICES, whatever the old value.
SetStatus(t, s) ==
    /\ t \in tickets
    /\ tickets' = (tickets \ {t}) \cup {[t EXCEPT !.status = s]}
    /\ result' = Res("set_status", Ret(None), t.id, 0, t.status, s)
    /\ UNCHANGED <<users, events, admins, nextEventId, nextAdminId,
                   nextTicketId, inst>>

\* ------------------------------------------------------ instance actions
\* Constructing an Event instance. `tickets` is also the related_name of
\* Ticket.event, so the framework decides whether the assignment
\* `self.tickets = None` is stored or rejected; both outcomes are kept.
ConstructEvent(args, kwargs, row) ==
    /\ \/ /\ inst' = Event__init__(args, kwargs, row)
          /\ result' = Res("Event", Ret(None), row, 0, "", "")
       \/ /\ inst' = NoInstance
          /\ result' = Res("Event", Raise("TypeError"), row, 0, "", "")
    /\ UNCHANGED store

\* Event loaded from storage: the constructor gets the row's values
\* positionally.
LoadEvent(e) ==
    /\ e \in EventIds
    /\ ConstructEvent(<<e, Obj, EventRow(e).capacity>>, <<>>, e)

\* Event(capacity=c): a freshly built instance.
NewEvent(c) ==
    ConstructEvent(<<>>, [capacity |-> c], 0)

\* Ticket loaded from storage.
LoadTicket(t) ==
    /\ t \in TicketIds
    /\ inst' = Ticket__init__(<<t, TicketRow(t).event, TicketRow(t).quantity>>,
                               <<>>, t)
    /\ result' = Res("Ticket", Ret(None), t, 0, "", "")
    /\ UNCHANGED store

\* event.capacity = c by the holder of the instance (field `capacity`).
AssignCapacity(c) ==
    /\ inst.model = "Event"
    /\ inst.capacity # c
    /\ inst' = [inst EXCEPT !.capacity = c]
    /\ result' = Res("assign_capacity", Ret(None), c, 0, "", "")
    /\ UNCHANGED store

CallTicketsSold ==
    /\ inst.model = "Event"
    /\ result' = Res("tickets_sold", tickets_sold(inst), inst.row, 0, "", "")
    /\ UNCHANGED <<store, inst>>

CallSeatsAvailable ==
    /\ inst.model = "Event"
    /\ result' = Res("seats_available", seats_available(inst),
                     inst.row, 0, "", "")
    /\ UNCHANGED <<store, inst>>

\* ------------------------------------------------------------------ Next
\* The storage layer alone: every creation, deletion and status write.
\* The instance actions leave every stored row unchanged, so they add
\* nothing to what the rows can become.
StoreNext ==
    \/ \E u \in UserIds : CreateUser(u)
    \/ \E u \in UserIds : DeleteUser(u)
    \/ \E c \in Capacities : CreateEvent(c)
    \/ \E e \in 1..MaxEventId : DeleteEvent(e)
    \/ \E u \in UserIds, e \in 1..MaxEventId : CreateEventAdmin(u, e)
    \/ \E a \in admins : DeleteEventAdmin(a)
    \/ \E e \in 1..MaxEventId, u \in UserIds, q \in Quantities :
           CreateTicket(e, u, q)
    \/ \E t \in tickets : DeleteTicket(t)
    \/ \E t \in tickets, s \in STATUS_CHOICES : SetStatus(t, s)

Spec == Init /\ [][StoreNext]_vars

\* The instances over the rows they read: users, events and tickets change
\* underneath the instance the caller holds. EventAdmin rows are read by
\* neither __init__ nor the two aggregates and are left out.
CallsNext ==
    \/ \E u \in UserIds : CreateUser(u)
    \/ \E u \in UserIds : DeleteUser(u)
    \/ \E c \in Capacities : CreateEvent(c)
    \/ \E e \in 1..MaxEventId : DeleteEvent(e)
    \/ \E e \in 1..MaxEventId, u \in UserIds, q \in Quantities :
           CreateTicket(e, u, q)
    \/ \E t \in tickets : DeleteTicket(t)
    \/ \E t \in tickets, s \in STATUS_CHOICES : SetStatus(t, s)
    \/ \E e \in 1..MaxEventId : LoadEvent(e)
    \/ \E c \in Capacities : NewEvent(c)
    \/ \E t \in 1..MaxTicketId : LoadTicket(t)
    \/ \E c \in Capacities : AssignCapacity(c)
    \/ CallTicketsSold
    \/ CallSeatsAvailable

SpecCalls == Init /\ [][CallsNext]_vars

\* ================================================================ claims
\* Rows of an event and the quantity they add up to.
TicketsOf(e) == {t \in tickets : t.event = e}
Max0(x) == IF x > 0 THEN x ELSE 0

\* The instance in hand stands for a stored Event row.
HoldsStoredEvent == inst.model = "Event" /\ inst.row \in EventIds

\* C1: tickets_sold returns exactly the sum of quantity over all tickets of
\* the event, whatever their status, and 0 when the event has no tickets.
C1_TicketsSoldIsSum ==
    (result.op = "tickets_sold" /\ HoldsStoredEvent)
        => /\ result.kind = "return"
           /\ result.val = SumQuantity(TicketsOf(inst.row))

\* C2: for an event whose capacity is set, seats_available returns
\* max(capacity - tickets_sold, 0), a number in 0..capacity.
C2_SeatsAvailableClamped ==
    (result.op = "seats_available" /\ HoldsStoredEvent
        /\ inst.capacity # None)
        => /\ result.kind = "return"
           /\ result.val = Max0(inst.capacity - SumQuantity(TicketsOf(inst.row)))
           /\ result.val \in 0..inst.capacity

\* C3: for an event whose capacity is None, seats_available returns None,
\* never a number, whatever tickets the event has.
C3_UnlimitedWhenCapacityNone ==
    (result.op = "seats_available" /\ inst.model = "Event"
        /\ inst.capacity = None)
        => /\ result.kind = "return"
           /\ result.val = None

\* C3 witness: seats_available has returned None for a loaded event without
\* capacity that has two tickets, at least one of them of quantity >= 1.
C3_Witness ==
    /\ result.op = "seats_available"
    /\ HoldsStoredEvent
    /\ EventRow(inst.row).capacity = None
    /\ inst.capacity = None
    /\ Cardinality(TicketsOf(inst.row)) >= 2
    /\ SumQuantity(TicketsOf(inst.row)) >= 1
    /\ result.kind = "return"
    /\ result.val = None

\* C4: no two EventAdmin rows share (user, event), and creating an
\* EventAdmin for a pair that already has a row fails with a uniqueness
\* violation and leaves the rows unchanged.
NoDuplicateAdminPair ==
    \A a, b \in admins : (a.user = b.user /\ a.event = b.event) => a = b

DuplicateAdminRejected ==
    (/\ result'.op = "create_admin"
     /\ \E a \in admins : a.user = result'.a1 /\ a.event = result'.a2)
        => /\ result'.kind = "raise"
           /\ result'.exc = "IntegrityError"
           /\ admins' = admins

C4_UniqueAdminPair ==
    [] NoDuplicateAdminPair /\ [][DuplicateAdminRejected]_vars

\* C4 witness: a duplicate creation has just been refused while one user is
\* admin of two different events.
C4_Witness ==
    /\ result.op = "create_admin"
    /\ result.exc = "IntegrityError"
    /\ \E a \in admins : a.user = result.a1 /\ a.event = result.a2
    /\ \E a, b \in admins : a.user = b.user /\ a.event # b.event

\* C5: a step that removes an Event removes every Ticket and EventAdmin of
\* that event and no Ticket or EventAdmin of another event, and no user.
DeleteEventCascades ==
    \A e \in EventIds :
        e \notin EventIds'
            => /\ \A t \in tickets' : t.event # e
               /\ \A a \in admins' : a.event # e
               /\ \A t \in tickets : t.event # e => t \in tickets'
               /\ \A a \in admins : a.event # e => a \in admins'
               /\ users' = users

C5_DeleteEventCascades == [][DeleteEventCascades]_vars

\* C5 witness: an event has just been deleted together with at least two
\* dependent rows, and a ticket and an admin of another event are still
\* stored.
C5_Witness ==
    /\ result.op = "delete_event"
    /\ result.val >= 3
    /\ tickets # {}
    /\ admins # {}

\* C6: every EventAdmin and Ticket row references a stored user and a stored
\* event; a step that removes a user leaves no row of that user.
ReferencesExist ==
    /\ \A a \in admins : a.user \in users /\ a.event \in EventIds
    /\ \A t \in tickets : t.buyer \in users /\ t.event \in EventIds

DeleteUserCascades ==
    \A u \in users :
        u \notin users'
            => /\ \A a \in admins' : a.user # u
               /\ \A t \in tickets' : t.buyer # u

C6_ReferentialIntegrity ==
    [] ReferencesExist /\ [][DeleteUserCascades]_vars

\* C6 witness: a user has just been deleted together with an admin row and
\* a ticket, and rows of another user are still stored.
C6_Witness ==
    /\ result.op = "delete_user"
    /\ result.val >= 3
    /\ tickets # {}
    /\ admins # {}

\* C7: tickets_sold called on an instance the Event constructor produced
\* never raises and returns a non-negative integer.
C7_TicketsSoldNeverRaises ==
    (result.op = "tickets_sold" /\ inst.model = "Event")
        => /\ result.kind = "return"
           /\ result.val >= 0

\* C8: stored events have pairwise different ids, so have stored tickets,
\* and an instance just loaded from a stored row carries that row's id.
C8_IdsUniqueAndCarried ==
    /\ \A a, b \in events : a.id = b.id => a = b
    /\ \A a, b \in tickets : a.id = b.id => a = b
    /\ (result.op = "Event" /\ result.kind = "return" /\ HoldsStoredEvent)
           => inst.id = inst.row
    /\ (result.op = "Ticket" /\ result.kind = "return"
           /\ inst.model = "Ticket" /\ inst.row \in TicketIds)
           => inst.id = inst.row

\* C9: a new ticket starts PENDING, every stored status is one of the three
\* choices, and a status write from any value to any value is accepted.
StatusInChoices == \A t \in tickets : t.status \in STATUS_CHOICES

NewTicketPending ==
    \A t \in tickets' : t.id \notin TicketIds => t.status = STATUS_PENDING

StatusWriteAccepted ==
    result'.op = "set_status"
        => /\ result'.kind = "return"
           /\ \E t \in tickets' :
                  t.id = result'.a1 /\ t.status = result'.s2

C9_NoTransitionGraph ==
    /\ [] StatusInChoices
    /\ [][NewTicketPending]_vars
    /\ [][StatusWriteAccepted]_vars

\* C9 witness: a write from CANCELLED back to PAID has just been accepted.
C9_Witness ==
    /\ result.op = "set_status"
    /\ result.kind = "return"
    /\ result.s1 = STATUS_CANCELLED
    /\ result.s2 = STATUS_PAID
    /\ \E t \in tickets : t.id = result.a1 /\ t.status = STATUS_PAID

\* C10: creating a ticket is never refused because of capacity, and in a
\* state where the non-cancelled tickets of an event add up to more than its
\* capacity seats_available reports 0.
Oversold(e) ==
    /\ EventRow(e).capacity # None
    /\ SumQuantity({t \in TicketsOf(e) : t.status # STATUS_CANCELLED})
           > EventRow(e).capacity

C10_CapacityAdvisory ==
    /\ (result.op = "create_ticket"
           /\ result.a1 \in EventIds /\ result.a2 \in users)
           => result.kind = "return"
    /\ (result.op = "seats_available" /\ HoldsStoredEvent
           /\ Oversold(inst.row)
           /\ inst.capacity = EventRow(inst.row).capacity)
           => (result.kind = "return" /\ result.val = 0)
====
